---- MODULE Spec2Model ----
(***************************************************************************)
(* Model of the two templates of the repository:                           *)
(*   - fastapi-endpoint-template.py: the five /api/users handlers and      *)
(*     their dependencies, as coroutines that interleave at their awaits;  *)
(*   - pytest-fixtures.py: the fixtures and the tests that use them, run   *)
(*     by the test runner with its scope rules.                            *)
(* Three specifications share the module:                                  *)
(*   Spec      concurrent requests against the users store,                *)
(*   SpecList  the pagination arithmetic of list_users over wide inputs,   *)
(*   SpecFix   one test module run with the fixtures.                      *)
(***************************************************************************)
EXTENDS Integers, Sequences, FiniteSets, TLC

\* ---------------------------------------------------------------- bounds
\* number of requests in flight (each request slot is used once)
NumReq == 2
\* pagination inputs (SpecList)
MaxPage == 3
MaxSmallLimit == 3
LimitSlack == 2
MaxTotal == 7
\* number of tests run in the module (SpecFix)
MaxTests == 3

\* --------------------------------------------------- program constants
MaxPerPage == 100
HTTP_401_UNAUTHORIZED == 401
HTTP_403_FORBIDDEN == 403
HTTP_404_NOT_FOUND == 404
HTTP_409_CONFLICT == 409
HTTP_201_CREATED == 201
HTTP_204_NO_CONTENT == 204
HTTP_200_OK == 200
HTTP_422_UNPROCESSABLE == 422
HTTP_500_INTERNAL == 500

VARIABLES
    \* Spec: the users store behind db, and the requests
    users, req,
    \* SpecList: one list_users call
    lpc, lpage, llimit, ltotal, lcall, lresp,
    \* SpecFix: the test run
    fpc, cur, ntests, outcome, connlog, opened, closed,
    client, created, closes, uses, usedClosed, wantedClient, suser, staleToken

apiVars == <<users, req>>
listVars == <<lpc, lpage, llimit, ltotal, lcall, lresp>>
fixVars == <<fpc, cur, ntests, outcome, connlog, opened, closed,
             client, created, closes, uses, usedClosed, wantedClient, suser,
             staleToken>>
vars == <<apiVars, listVars, fixVars>>

\* Python's None and a present value, as sequences so that both compare
None == <<>>
Some(x) == <<x>>

\* ====================================================================
\*  fastapi-endpoint-template.py
\* ====================================================================

\* ---- strings of the schema, as sequences of characters
AlnumChars == {"n", "e", "w", "N"}

LowerChar(c) == IF c = "N" THEN "n" ELSE c

\* str.isalnum(): non-empty and every character alphanumeric
isalnum(v) == Len(v) > 0 /\ \A i \in 1..Len(v) : v[i] \in AlnumChars

\* str.lower()
lower(v) == [i \in 1..Len(v) |-> LowerChar(v[i])]

\* UserCreate.username_alphanumeric: ValueError (ok = FALSE) or v.lower()
username_alphanumeric(v) ==
    IF ~isalnum(v) THEN [ok |-> FALSE, value |-> v]
    ELSE [ok |-> TRUE, value |-> lower(v)]

\* ---- the Authorization header, as a sequence of chunks; None when absent
StartsWithBearer(a) == Len(a) >= 1 /\ a[1] = "Bearer "

\* authorization.replace("Bearer ", ""): every occurrence is removed
ReplaceBearer(a) == SelectSeq(a, LAMBDA c : c /= "Bearer ")

AuthHeaders ==
    { None,
      <<"Basic ", "tA">>,
      <<"Bearer ", "tBad">>,
      <<"Bearer ", "tU">>,
      <<"Bearer ", "tA">> }

NoUser == [id |-> "", is_admin |-> FALSE]

\* validate_jwt_token: the user of a token, or an exception
validate_jwt_token(token) ==
    IF token = <<"tU">> THEN [raised |-> FALSE, user |-> [id |-> "u1", is_admin |-> FALSE]]
    ELSE IF token = <<"tA">> THEN [raised |-> FALSE, user |-> [id |-> "a1", is_admin |-> TRUE]]
    ELSE [raised |-> TRUE, user |-> NoUser]

\* a variant that lets a request through when the token does not validate
get_current_user_swallow(authorization) ==
    IF authorization = None \/ ~StartsWithBearer(authorization)
    THEN [status |-> HTTP_401_UNAUTHORIZED, user |-> NoUser]
    ELSE [status |-> 0, user |-> validate_jwt_token(ReplaceBearer(authorization)).user]

\* get_current_user: status 0 and the user, or the HTTPException's status
get_current_user(authorization) ==
    IF authorization = None \/ ~StartsWithBearer(authorization)
    THEN [status |-> HTTP_401_UNAUTHORIZED, user |-> NoUser]
    ELSE LET token == ReplaceBearer(authorization)
             v == validate_jwt_token(token)
         IN  IF v.raised
             THEN [status |-> HTTP_401_UNAUTHORIZED, user |-> NoUser]
             ELSE [status |-> 0, user |-> v.user]

\* a variant that never refuses an authenticated user
require_admin_any(dep) == dep

\* require_admin(current_user = Depends(get_current_user))
require_admin(dep) ==
    IF dep.status /= 0 THEN dep
    ELSE IF ~dep.user.is_admin
         THEN [status |-> HTTP_403_FORBIDDEN, user |-> dep.user]
         ELSE dep

\* the dependency each route declares
Dependency(op, authorization) ==
    IF op = "delete_user" THEN require_admin(get_current_user(authorization))
    ELSE get_current_user(authorization)


\* ---- dicts (user_data.dict(exclude_unset=True), update_data)
EmptyDict == [k \in {} |-> None]
DictSet(d, k, v) == [x \in (DOMAIN d) \cup {k} |-> IF x = k THEN v ELSE d[x]]
DictPop(d, k) == [x \in (DOMAIN d) \ {k} |-> d[x]]
\* attribute access on a schema object: an unset Optional field reads None
Attr(d, k) == IF k \in DOMAIN d THEN d[k] ELSE None

\* hash_password: its result is determined by the password and differs from it
hash_password(p) == <<"hash">> \o p

\* datetime.utcnow()
utcnow == <<"now">>

\* str(uuid.uuid4()): an id no other request draws
uuid4(r) == "uuid" \o ToString(r)

\* ---- db, the storage collaborator; users is the set of stored records
db_find_user_by_username_or_email(store, username, email) ==
    LET m == {u \in store : u.username = username \/ u.email = email}
    IN  IF m = {} THEN None ELSE Some(CHOOSE u \in m : TRUE)

db_get_user(store, id) ==
    LET m == {u \in store : u.id = id}
    IN  IF m = {} THEN None ELSE Some(CHOOSE u \in m : TRUE)

db_create_user(store, rec) == store \cup {rec}

\* the keys of update_data overwrite the record's fields, the others stay
ApplyUpdate(u, update_data) ==
    [id |-> u.id,
     username |-> u.username,
     email |-> IF "email" \in DOMAIN update_data THEN update_data["email"] ELSE u.email,
     full_name |-> IF "full_name" \in DOMAIN update_data
                   THEN update_data["full_name"] ELSE u.full_name,
     password_hash |-> IF "password_hash" \in DOMAIN update_data
                       THEN update_data["password_hash"] ELSE u.password_hash,
     updated_at |-> IF "updated_at" \in DOMAIN update_data
                    THEN update_data["updated_at"] ELSE u.updated_at]

db_update_user(store, id, update_data) ==
    {IF u.id = id THEN ApplyUpdate(u, update_data) ELSE u : u \in store}

db_delete_user(store, id) == {u \in store : u.id /= id}

\* db.list_users(offset, limit, search): the total it reports
db_list_users_total(store) == Cardinality(store)

\* ---- list_users arithmetic
\* a variant without the cap
CapLimitNone(limit) == limit

\* if limit > 100: limit = 100
CapLimit(limit) == IF limit > MaxPerPage THEN MaxPerPage ELSE limit

\* offset = (page - 1) * limit
Offset(page, limit) == (page - 1) * limit

\* Python's //: floor division, ZeroDivisionError (None) when b = 0
FloorDiv(a, b) ==
    IF b = 0 THEN None
    ELSE IF b > 0 THEN Some(a \div b)
    ELSE Some((0 - a) \div (0 - b))

\* (total + limit - 1) // limit
TotalPages(total, limit) == FloorDiv(total + limit - 1, limit)

\* the arguments list_users passes to db.list_users
ListCall(page, limit) ==
    [offset |-> Offset(page, CapLimit(limit)), limit |-> CapLimit(limit)]

\* the "pagination" object of the response; None when the handler raises
Pagination(page, limit, total) ==
    LET lim == CapLimit(limit)
        tp == TotalPages(total, lim)
    IN  IF tp = None THEN None
        ELSE Some([page |-> page, per_page |-> lim, total |-> total,
                   total_pages |-> tp[1]])

\* ---- update_user
\* a variant that lets every authenticated user update every profile
UpdateForbiddenNever(user_id, current_user) == FALSE

\* if user_id != current_user["id"] and not current_user.get("is_admin")
UpdateForbidden(user_id, current_user) ==
    user_id /= current_user.id /\ ~current_user.is_admin

\* a variant that hashes the password and leaves the plain one in place
HashIntoUpdateKeep(update_data) ==
    DictSet(update_data, "password_hash", hash_password(update_data["password"]))

\* update_data["password_hash"] = await hash_password(update_data.pop("password"))
HashIntoUpdate(update_data) ==
    DictSet(DictPop(update_data, "password"), "password_hash",
            hash_password(update_data["password"]))

\* update_data["updated_at"] = datetime.utcnow()
Stamp(update_data) == DictSet(update_data, "updated_at", utcnow)

\* ---- create_user
\* a variant that never sees a duplicate
DuplicateNever(existing_user) == FALSE

\* if existing_user: raise HTTPException(409)
Duplicate(existing_user) == existing_user /= None

NewUser(r, q) ==
    [id |-> uuid4(r),
     username |-> q.username,
     email |-> Attr(q.fields, "email"),
     full_name |-> Attr(q.fields, "full_name"),
     password_hash |-> q.password_hash,
     updated_at |-> utcnow]

\* ---- requests
Slots == 1..NumReq
Ops == {"create_user", "list_users", "get_user", "update_user", "delete_user"}
DbCalls == {"find_user", "create_user", "list_users", "get_user", "update_user",
            "delete_user"}
AwaitPcs == DbCalls \cup {"hash_password"}

\* path parameters: the id of the stored user u1, and an id that is not stored
UserIds == {"u1", "zz"}
ListPages == {2}
ListLimits == {0, 101}

\* the fields a body sets (exclude_unset keeps exactly these); a set
\* Optional field may be null
Body(email, full_name, password) ==
    [k \in {x \in {"email", "full_name", "password"} :
               \/ x = "email" /\ email /= <<"unset">>
               \/ x = "full_name" /\ full_name /= <<"unset">>
               \/ x = "password" /\ password /= <<"unset">>}
     |-> IF k = "email" THEN email ELSE IF k = "full_name" THEN full_name ELSE password]
Unset == <<"unset">>

\* bodies of PATCH /api/users/{id}
UpdateBodies ==
    {Body(Unset, Unset, Unset),
     Body(Unset, None, Some("pw2")),
     Body(Some("m@x"), Some("M"), None)}

\* bodies of POST /api/users: the same username up to case, the same email,
\* the email of a stored user, a username that is not alphanumeric
CreateBodies ==
    {[username |-> <<"n", "e", "w">>, fields |-> Body(Some("n@x"), Unset, Some("pw1"))],
     [username |-> <<"N", "e", "w">>, fields |-> Body(Some("m@x"), Unset, Some("pw1"))],
     [username |-> <<"w", "e", "n">>, fields |-> Body(Some("n@x"), Some("W"), Some("pw1"))],
     [username |-> <<"w", "e", "n">>, fields |-> Body(Some("u@x"), Unset, Some("pw1"))],
     [username |-> <<"n", "_", "w">>, fields |-> Body(Some("n@x"), Unset, Some("pw1"))]}

IdleReq ==
    [op |-> "none", pc |-> "idle", authorization |-> None, current_user |-> NoUser,
     user_id |-> "", username |-> <<>>, fields |-> EmptyDict,
     existing_user |-> None, password_hash |-> None, update_data |-> EmptyDict,
     calls |-> <<>>, raised |-> FALSE, status |-> 0, page |-> 0, limit |-> 0,
     dbcall |-> ListCall(0, 0), resp |-> None]

\* what a request carries besides its header, per route
Inputs(op) ==
    IF op = "create_user"
    THEN {[IdleReq EXCEPT !.username = b.username, !.fields = b.fields]
          : b \in CreateBodies}
    ELSE IF op = "list_users"
    THEN {[IdleReq EXCEPT !.page = p, !.limit = l] : p \in ListPages, l \in ListLimits}
    ELSE IF op = "update_user"
    THEN {[IdleReq EXCEPT !.user_id = i, !.fields = f] : i \in UserIds, f \in UpdateBodies}
    ELSE {[IdleReq EXCEPT !.user_id = i] : i \in UserIds}

InitialUsers ==
    {[id |-> "u1", username |-> <<"u", "s", "r">>, email |-> Some("u@x"),
      full_name |-> Some("U"), password_hash |-> hash_password(Some("pw0")),
      updated_at |-> <<"t0">>],
     [id |-> "a1", username |-> <<"a", "d", "m">>, email |-> Some("a@x"),
      full_name |-> None, password_hash |-> hash_password(Some("pw0")),
      updated_at |-> <<"t0">>]}

Finish(q, status) == [q EXCEPT !.pc = "done", !.status = status]
Called(q, name) == [q EXCEPT !.calls = Append(@, name)]

\* the route's first awaited call
FirstAwait(op) ==
    IF op = "create_user" THEN "find_user"
    ELSE IF op = "list_users" THEN "list_users"
    ELSE "get_user"


ApiFrame == UNCHANGED <<listVars, fixVars>>

\* the handler up to its first await, entered with the dependency's user and
\* the request's parameters and body
EnterHandler(q0, user, q) ==
    LET v == username_alphanumeric(q.username)
        p == [q EXCEPT !.op = q0.op, !.authorization = q0.authorization,
                       !.current_user = user]
    IN  IF p.op = "create_user" /\ ~v.ok
        THEN Finish(p, HTTP_422_UNPROCESSABLE)
        ELSE IF p.op = "update_user" /\ UpdateForbidden(p.user_id, user)
        THEN Finish(p, HTTP_403_FORBIDDEN)
        ELSE [p EXCEPT !.username = IF p.op = "create_user" THEN v.value ELSE @,
                       !.dbcall = IF p.op = "list_users"
                                  THEN ListCall(p.page, p.limit) ELSE @,
                       !.pc = FirstAwait(p.op)]

\* a request arrives: the route's dependency runs; when it passes, the body
\* is validated and the handler runs up to its first await
Enter(r) ==
    /\ req[r].pc = "idle"
    /\ \E op \in Ops, a \in AuthHeaders :
          LET q0 == [IdleReq EXCEPT !.op = op, !.authorization = a]
              d == Dependency(op, a)
          IN  IF d.status /= 0
              THEN req' = [req EXCEPT ![r] = Finish(q0, d.status)]
              ELSE \E q \in Inputs(op) :
                      req' = [req EXCEPT ![r] = EnterHandler(q0, d.user, q)]
    /\ UNCHANGED users
    /\ ApiFrame

\* create_user: await db.find_user_by_username_or_email, then the 409 check
CreateUser_find(r) ==
    LET q == req[r]
        e == db_find_user_by_username_or_email(users, q.username, Attr(q.fields, "email"))
        c == Called([q EXCEPT !.existing_user = e], "find_user")
    IN  /\ q.op = "create_user" /\ q.pc = "find_user"
        /\ req' = [req EXCEPT ![r] =
                     IF Duplicate(e) THEN Finish(c, HTTP_409_CONFLICT)
                     ELSE [c EXCEPT !.pc = "hash_password"]]
        /\ UNCHANGED users
        /\ ApiFrame

\* create_user: await hash_password
CreateUser_hash(r) ==
    LET q == req[r]
    IN  /\ q.op = "create_user" /\ q.pc = "hash_password"
        /\ req' = [req EXCEPT ![r] =
                     [Called(q, "hash_password") EXCEPT
                        !.password_hash = hash_password(Attr(q.fields, "password")),
                        !.pc = "create_user"]]
        /\ UNCHANGED users
        /\ ApiFrame

\* create_user: await db.create_user, return new_user (201)
CreateUser_create(r) ==
    LET q == req[r]
    IN  /\ q.op = "create_user" /\ q.pc = "create_user"
        /\ users' = db_create_user(users, NewUser(r, q))
        /\ req' = [req EXCEPT ![r] = Finish(Called(q, "create_user"), HTTP_201_CREATED)]
        /\ ApiFrame

\* list_users: await db.list_users, then build the response
ListUsers_list(r) ==
    LET q == req[r]
        p == Pagination(q.page, q.limit, db_list_users_total(users))
        c == Called([q EXCEPT !.resp = p], "list_users")
    IN  /\ q.op = "list_users" /\ q.pc = "list_users"
        /\ req' = [req EXCEPT ![r] =
                     IF p = None THEN Finish(c, HTTP_500_INTERNAL)
                     ELSE Finish(c, HTTP_200_OK)]
        /\ UNCHANGED users
        /\ ApiFrame

\* get_user: await db.get_user, 404 or the user
GetUser_get(r) ==
    LET q == req[r]
        e == db_get_user(users, q.user_id)
        c == Called([q EXCEPT !.existing_user = e], "get_user")
    IN  /\ q.op = "get_user" /\ q.pc = "get_user"
        /\ req' = [req EXCEPT ![r] =
                     IF e = None THEN Finish(c, HTTP_404_NOT_FOUND)
                     ELSE Finish(c, HTTP_200_OK)]
        /\ UNCHANGED users
        /\ ApiFrame

\* update_user: await db.get_user, 404, then update_data up to the next await
UpdateUser_get(r) ==
    LET q == req[r]
        e == db_get_user(users, q.user_id)
        c == Called([q EXCEPT !.existing_user = e], "get_user")
    IN  /\ q.op = "update_user" /\ q.pc = "get_user"
        /\ req' = [req EXCEPT ![r] =
                     IF e = None THEN Finish(c, HTTP_404_NOT_FOUND)
                     ELSE IF "password" \in DOMAIN q.fields
                     THEN [c EXCEPT !.update_data = q.fields, !.pc = "hash_password"]
                     ELSE [c EXCEPT !.update_data = Stamp(q.fields),
                                    !.pc = "update_user"]]
        /\ UNCHANGED users
        /\ ApiFrame

\* update_user: await hash_password, then the timestamp
UpdateUser_hash(r) ==
    LET q == req[r]
    IN  /\ q.op = "update_user" /\ q.pc = "hash_password"
        /\ req' = [req EXCEPT ![r] =
                     [Called(q, "hash_password") EXCEPT
                        !.update_data = Stamp(HashIntoUpdate(q.update_data)),
                        !.pc = "update_user"]]
        /\ UNCHANGED users
        /\ ApiFrame

\* update_user: await db.update_user, return updated_user
UpdateUser_update(r) ==
    LET q == req[r]
    IN  /\ q.op = "update_user" /\ q.pc = "update_user"
        /\ users' = db_update_user(users, q.user_id, q.update_data)
        /\ req' = [req EXCEPT ![r] = Finish(Called(q, "update_user"), HTTP_200_OK)]
        /\ ApiFrame

\* delete_user: await db.get_user, 404
DeleteUser_get(r) ==
    LET q == req[r]
        e == db_get_user(users, q.user_id)
        c == Called([q EXCEPT !.existing_user = e], "get_user")
    IN  /\ q.op = "delete_user" /\ q.pc = "get_user"
        /\ req' = [req EXCEPT ![r] =
                     IF e = None THEN Finish(c, HTTP_404_NOT_FOUND)
                     ELSE [c EXCEPT !.pc = "delete_user"]]
        /\ UNCHANGED users
        /\ ApiFrame

\* delete_user: await db.delete_user, return None (204)
DeleteUser_delete(r) ==
    LET q == req[r]
    IN  /\ q.op = "delete_user" /\ q.pc = "delete_user"
        /\ users' = db_delete_user(users, q.user_id)
        /\ req' = [req EXCEPT ![r] = Finish(Called(q, "delete_user"), HTTP_204_NO_CONTENT)]
        /\ ApiFrame

\* an awaited collaborator raises: the generic handler answers 500
generic_exception_handler(r) ==
    LET q == req[r]
    IN  /\ q.pc \in AwaitPcs
        /\ req' = [req EXCEPT ![r] =
                     Finish([Called(q, q.pc) EXCEPT !.raised = TRUE], HTTP_500_INTERNAL)]
        /\ UNCHANGED users
        /\ ApiFrame

ApiInit ==
    /\ users = InitialUsers
    /\ req = [r \in Slots |-> IdleReq]

ApiNext ==
    \E r \in Slots :
        \/ Enter(r)
        \/ CreateUser_find(r)
        \/ CreateUser_hash(r)
        \/ CreateUser_create(r)
        \/ ListUsers_list(r)
        \/ GetUser_get(r)
        \/ UpdateUser_get(r)
        \/ UpdateUser_hash(r)
        \/ UpdateUser_update(r)
        \/ DeleteUser_get(r)
        \/ DeleteUser_delete(r)
        \/ generic_exception_handler(r)

\* ---- the idle values of the other specifications' variables
ListIdle ==
    /\ lpc = "off" /\ lpage = 0 /\ llimit = 0 /\ ltotal = 0
    /\ lcall = ListCall(0, 0) /\ lresp = None
FixIdle ==
    /\ fpc = "off" /\ cur = "none" /\ ntests = 0 /\ outcome = "none"
    /\ connlog = <<>> /\ opened = 0 /\ closed = 0
    /\ client = "none" /\ created = 0 /\ closes = 0 /\ uses = 0
    /\ usedClosed = FALSE /\ wantedClient = FALSE
    /\ suser = None /\ staleToken = FALSE

Init == ApiInit /\ ListIdle /\ FixIdle
Next == ApiNext
Spec == Init /\ [][Next]_vars


\* ====================================================================
\*  list_users over wide inputs (SpecList): one authenticated request
\* ====================================================================

Pages == (0 - 1)..MaxPage
Limits == ((0 - LimitSlack)..MaxSmallLimit)
              \cup ((MaxPerPage - LimitSlack)..(MaxPerPage + LimitSlack))
\* the totals db.list_users may report: small ones and ones around the
\* multiples of the cap
Totals == (0..MaxTotal)
              \cup {k * MaxPerPage + d : k \in 1..2, d \in {0 - 1, 0, 1}}

ListFrame == UNCHANGED <<apiVars, fixVars>>

\* list_users up to its await: the cap, the offset, the call of db.list_users
ListUsers_call ==
    /\ lpc = "request"
    /\ lcall' = ListCall(lpage, llimit)
    /\ lpc' = "await"
    /\ UNCHANGED <<lpage, llimit, ltotal, lresp>>
    /\ ListFrame

\* db.list_users returns (users, total); the response is built, or the
\* division raises and the request ends with 500
ListUsers_return ==
    /\ lpc = "await"
    /\ \E total \in Totals :
          /\ ltotal' = total
          /\ lresp' = Pagination(lpage, llimit, total)
          /\ lpc' = IF Pagination(lpage, llimit, total) = None THEN "error" ELSE "done"
    /\ UNCHANGED <<lpage, llimit, lcall>>
    /\ ListFrame

ListInit ==
    /\ lpc = "request"
    /\ lpage \in Pages
    /\ llimit \in Limits
    /\ ltotal = 0
    /\ lcall = ListCall(0, 0)
    /\ lresp = None

InitList == ListInit /\ ApiInit /\ FixIdle
NextList == ListUsers_call \/ ListUsers_return
SpecList == InitList /\ [][NextList]_vars

\* ====================================================================
\*  pytest-fixtures.py (SpecFix): the tests of one module, run in turn
\* ====================================================================

\* the scope each fixture declares
sample_user_scope == "function"
api_client_scope_function == "function"
api_client_scope == "module"

\* the tests of the module that use the fixtures above
Tests == {"test_create_user", "test_api_call"}

\* the first fixture a test sets up: the wider scope first
FirstSetup(t) == IF t = "test_create_user" THEN "db_connect" ELSE "api_client"

FixFrame == UNCHANGED <<apiVars, listVars>>

\* the runner starts the next test of the module
RunTest ==
    /\ fpc = "next"
    /\ ntests < MaxTests
    /\ \E t \in Tests :
          /\ cur' = t
          /\ fpc' = FirstSetup(t)
          /\ wantedClient' = (wantedClient \/ t = "test_api_call")
    /\ ntests' = ntests + 1
    /\ outcome' = "running"
    /\ connlog' = <<>>
    /\ UNCHANGED <<opened, closed, client, created, closes, uses, usedClosed,
                   suser, staleToken>>
    /\ FixFrame

\* database_connection: db = Database.connect("test_db"), or it raises
db_connect ==
    /\ fpc = "db_connect"
    /\ \/ /\ opened' = opened + 1
          /\ connlog' = Append(connlog, "connect")
          /\ fpc' = "db_create_tables"
          /\ UNCHANGED outcome
       \/ /\ outcome' = "error"
          /\ fpc' = "next"
          /\ UNCHANGED <<opened, connlog>>
    /\ UNCHANGED <<cur, ntests, closed, client, created, closes, uses, usedClosed,
                   wantedClient, suser, staleToken>>
    /\ FixFrame

\* database_connection: db.create_tables(), then yield db; when it raises the
\* fixture never yielded, and the code after its yield is never run
db_create_tables ==
    /\ fpc = "db_create_tables"
    /\ \/ /\ connlog' = Append(connlog, "create_tables")
          /\ fpc' = "call"
          /\ UNCHANGED outcome
       \/ /\ connlog' = Append(connlog, "create_tables raised")
          /\ outcome' = "error"
          /\ fpc' = "next"
    /\ UNCHANGED <<cur, ntests, opened, closed, client, created, closes, uses,
                   usedClosed, wantedClient, suser, staleToken>>
    /\ FixFrame

\* TestUserService.test_create_user: the body, which passes or fails
test_create_user ==
    /\ fpc = "call" /\ cur = "test_create_user"
    /\ connlog' = Append(connlog, "body")
    /\ \E o \in {"passed", "failed"} : outcome' = o
    /\ fpc' = "db_drop_tables"
    /\ UNCHANGED <<cur, ntests, opened, closed, client, created, closes, uses,
                   usedClosed, wantedClient, suser, staleToken>>
    /\ FixFrame

\* database_connection after the yield: db.drop_tables(); when it raises the
\* rest of the teardown is skipped
db_drop_tables ==
    /\ fpc = "db_drop_tables"
    /\ \/ /\ connlog' = Append(connlog, "drop_tables")
          /\ fpc' = "db_close"
          /\ UNCHANGED outcome
       \/ /\ connlog' = Append(connlog, "drop_tables raised")
          /\ outcome' = "error"
          /\ fpc' = "next"
    /\ UNCHANGED <<cur, ntests, opened, closed, client, created, closes, uses,
                   usedClosed, wantedClient, suser, staleToken>>
    /\ FixFrame

\* database_connection: db.close()
db_close ==
    /\ fpc = "db_close"
    /\ connlog' = Append(connlog, "close")
    /\ closed' = closed + 1
    /\ fpc' = "next"
    /\ UNCHANGED <<cur, ntests, outcome, opened, client, created, closes, uses,
                   usedClosed, wantedClient, suser, staleToken>>
    /\ FixFrame

\* api_client: the cached client of the scope, or a new APIClient
api_client ==
    /\ fpc = "api_client"
    /\ IF api_client_scope /= "function" /\ client = "open"
       THEN UNCHANGED <<client, created>>
       ELSE client' = "open" /\ created' = created + 1
    /\ fpc' = "sample_user"
    /\ UNCHANGED <<cur, ntests, outcome, connlog, opened, closed, closes, uses,
                   usedClosed, wantedClient, suser, staleToken>>
    /\ FixFrame

\* sample_user: the cached user of the scope, or a new User (no token)
sample_user ==
    /\ fpc = "sample_user"
    /\ IF sample_user_scope /= "function" /\ suser /= None
       THEN UNCHANGED suser
       ELSE suser' = Some([username |-> "testuser", token |-> None])
    /\ staleToken' = (staleToken \/ suser'[1].token /= None)
    /\ fpc' = "login"
    /\ UNCHANGED <<cur, ntests, outcome, connlog, opened, closed, client, created,
                   closes, uses, usedClosed, wantedClient>>
    /\ FixFrame

\* authenticated_user: token = api_client.login(...), sample_user.token = token;
\* or login raises
authenticated_user ==
    /\ fpc = "login"
    /\ uses' = uses + 1
    /\ usedClosed' = (usedClosed \/ client /= "open")
    /\ \/ /\ suser' = Some([suser[1] EXCEPT !.token = Some("token")])
          /\ fpc' = "call"
          /\ UNCHANGED outcome
       \/ /\ outcome' = "error"
          /\ fpc' = "teardown"
          /\ UNCHANGED suser
    /\ UNCHANGED <<cur, ntests, connlog, opened, closed, client, created, closes,
                   wantedClient, staleToken>>
    /\ FixFrame

\* TestUserService.test_api_call: api_client.get("/profile", token=...), which
\* passes or fails
test_api_call ==
    /\ fpc = "call" /\ cur = "test_api_call"
    /\ uses' = uses + 1
    /\ usedClosed' = (usedClosed \/ client /= "open")
    /\ \E o \in {"passed", "failed"} : outcome' = o
    /\ fpc' = "teardown"
    /\ UNCHANGED <<cur, ntests, connlog, opened, closed, client, created, closes,
                   wantedClient, suser, staleToken>>
    /\ FixFrame

\* the end of a test that used authenticated_user: its function-scoped
\* fixtures are finalised (the user is dropped; api_client is not one of them)
teardown_function ==
    /\ fpc = "teardown"
    /\ suser' = IF sample_user_scope = "function" THEN None ELSE suser
    /\ IF api_client_scope = "function"
       THEN client' = "closed" /\ closes' = closes + 1
       ELSE UNCHANGED <<client, closes>>
    /\ fpc' = "next"
    /\ UNCHANGED <<cur, ntests, outcome, connlog, opened, closed, created, uses,
                   usedClosed, wantedClient, staleToken>>
    /\ FixFrame

\* the end of the module: its module-scoped fixtures are finalised, for
\* api_client the code after its yield, client.close()
teardown_module ==
    /\ fpc = "next"
    /\ IF client = "open"
       THEN client' = "closed" /\ closes' = closes + 1
       ELSE UNCHANGED <<client, closes>>
    /\ suser' = None
    /\ fpc' = "done"
    /\ UNCHANGED <<cur, ntests, outcome, connlog, opened, closed, created, uses,
                   usedClosed, wantedClient, staleToken>>
    /\ FixFrame

FixInit ==
    /\ fpc = "next" /\ cur = "none" /\ ntests = 0 /\ outcome = "none"
    /\ connlog = <<>> /\ opened = 0 /\ closed = 0
    /\ client = "none" /\ created = 0 /\ closes = 0 /\ uses = 0
    /\ usedClosed = FALSE /\ wantedClient = FALSE
    /\ suser = None /\ staleToken = FALSE

InitFix == FixInit /\ ApiInit /\ ListIdle
NextFix ==
    \/ RunTest
    \/ db_connect
    \/ db_create_tables
    \/ test_create_user
    \/ db_drop_tables
    \/ db_close
    \/ api_client
    \/ sample_user
    \/ authenticated_user
    \/ test_api_call
    \/ teardown_function
    \/ teardown_module
SpecFix == InitFix /\ [][NextFix]_vars

\* ====================================================================
\*  Properties
\* ====================================================================

Invoked(q, name) == \E i \in 1..Len(q.calls) : q.calls[i] = name

\* the header carries no credential that validates
AuthFails(a) ==
    \/ a = None
    \/ ~StartsWithBearer(a)
    \/ validate_jwt_token(ReplaceBearer(a)).raised

\* C1: on every route, a request whose Authorization header is missing, lacks
\* the "Bearer " prefix or carries a token that does not validate ends with
\* 401 and invokes no db operation (nor any other collaborator of the handler);
\* a request that reached a handler's await carries an authenticated user.
C1_AuthBeforeHandling ==
    \A r \in Slots :
        LET q == req[r]
        IN  /\ (q.pc /= "idle" /\ AuthFails(q.authorization)) =>
                  /\ q.calls = <<>>
                  /\ q.pc = "done"
                  /\ q.status = HTTP_401_UNAUTHORIZED
            /\ (q.calls /= <<>> \/ q.pc \in AwaitPcs) =>
                  /\ ~AuthFails(q.authorization)
                  /\ q.current_user /= NoUser

C1_Witness ==
    \E r1, r2 \in Slots :
        /\ req[r1].pc = "done" /\ req[r1].authorization = <<"Bearer ", "tBad">>
        /\ req[r1].status = HTTP_401_UNAUTHORIZED /\ req[r1].op = "create_user"
        /\ req[r2].pc = "done" /\ req[r2].authorization = None
        /\ req[r2].status = HTTP_401_UNAUTHORIZED /\ req[r2].op = "delete_user"

\* C2: db.delete_user is invoked only by a request of an admin, after
\* db.get_user returned an existing user in that request; a non-admin caller
\* ends with 403 and no db call; an admin deleting an absent user ends with
\* 404 and no db.delete_user call.
C2_DeleteAdminOnly ==
    \A r \in Slots :
        LET q == req[r]
        IN  q.op = "delete_user" =>
              /\ (Invoked(q, "delete_user") \/ q.pc = "delete_user") =>
                    /\ q.current_user.is_admin
                    /\ q.existing_user /= None
                    /\ q.existing_user[1].id = q.user_id
                    /\ q.calls[1] = "get_user"
              /\ (~AuthFails(q.authorization)
                  /\ ~validate_jwt_token(ReplaceBearer(q.authorization)).user.is_admin
                  /\ q.pc /= "idle") =>
                    /\ q.calls = <<>>
                    /\ q.pc = "done"
                    /\ q.status = HTTP_403_FORBIDDEN
              /\ (q.calls = <<"get_user">> /\ ~q.raised /\ q.existing_user = None) =>
                    /\ q.pc = "done"
                    /\ q.status = HTTP_404_NOT_FOUND

C2_Witness ==
    \E r1, r2 \in Slots :
        /\ req[r1].op = "delete_user" /\ req[r1].status = HTTP_204_NO_CONTENT
        /\ req[r1].calls = <<"get_user", "delete_user">>
        /\ req[r2].op = "delete_user" /\ req[r2].status = HTTP_404_NOT_FOUND
        /\ req[r2].current_user.is_admin

\* C3: update_user invokes db.update_user only when the path id is the
\* authenticated user's id or the user is admin; otherwise the request ends
\* with 403 before the existence check: no db read or write, never 404.
C3_UpdateSelfOrAdmin ==
    \A r \in Slots :
        LET q == req[r]
        IN  q.op = "update_user" =>
              /\ (q.calls /= <<>> \/ q.pc \in AwaitPcs) =>
                    (q.user_id = q.current_user.id \/ q.current_user.is_admin)
              /\ (q.current_user /= NoUser /\ q.user_id /= q.current_user.id
                  /\ ~q.current_user.is_admin) =>
                    /\ q.pc = "done"
                    /\ q.status = HTTP_403_FORBIDDEN
                    /\ q.calls = <<>>

C3_Witness ==
    \E r \in Slots :
        /\ req[r].op = "update_user" /\ req[r].pc = "done"
        /\ req[r].current_user.id = "u1" /\ req[r].user_id = "zz"
        /\ req[r].status = HTTP_403_FORBIDDEN

\* C4: when the lookup of create_user returns an existing user (with the
\* lower-cased username or the email of the request), the request ends with
\* 409 and invokes neither hash_password nor db.create_user; db.create_user
\* is invoked only after the lookup returned no user.
C4_DuplicateChangesNothing ==
    \A r \in Slots :
        LET q == req[r]
        IN  q.op = "create_user" =>
              /\ q.existing_user /= None =>
                    /\ q.pc = "done"
                    /\ q.status = HTTP_409_CONFLICT
                    /\ q.calls = <<"find_user">>
                    /\ \/ q.existing_user[1].username = q.username
                       \/ q.existing_user[1].email = Attr(q.fields, "email")
                    /\ \A u \in users : u.id /= uuid4(r)
              /\ (Invoked(q, "create_user") \/ Invoked(q, "hash_password")
                  \/ q.pc \in {"hash_password", "create_user"}) =>
                    /\ q.calls[1] = "find_user"
                    /\ q.existing_user = None
                    /\ q.username = lower(q.username)

C4_Witness ==
    \E r \in Slots :
        /\ req[r].op = "create_user" /\ req[r].status = HTTP_409_CONFLICT
        /\ req[r].existing_user /= None
        /\ req[r].existing_user[1].id \notin {"u1", "a1"}

\* C5: no two user records created through create_user share a username or
\* share an email, whatever the interleaving of the handlers.
C5_CreatedUsersUnique ==
    \A u, w \in users :
        (u.id /= w.id /\ u.id \notin {"u1", "a1"} /\ w.id \notin {"u1", "a1"}) =>
            (u.username /= w.username /\ u.email /= w.email)

\* the update_data of a request against the fields its body set
UpdateDataMatches(q) ==
    LET ud == q.update_data
        f == q.fields
    IN  /\ \A k \in {"email", "full_name"} :
              /\ k \in DOMAIN ud <=> k \in DOMAIN f
              /\ k \in DOMAIN ud => ud[k] = f[k]
        /\ "password" \notin DOMAIN ud
        /\ "password_hash" \in DOMAIN ud <=> "password" \in DOMAIN f
        /\ "password_hash" \in DOMAIN ud => ud["password_hash"] /= f["password"]
        /\ "updated_at" \in DOMAIN ud
        /\ DOMAIN ud \subseteq {"email", "full_name", "password_hash", "updated_at"}

\* db.update_user's step leaves alone the other users and, of the target, the
\* fields the body did not set
UpdateKeepsUnset ==
    \A r \in Slots :
        (req[r].op = "update_user" /\ req[r].pc = "update_user"
         /\ req'[r].pc = "done" /\ ~req'[r].raised) =>
            \A u \in users :
                IF u.id /= req[r].user_id THEN u \in users'
                ELSE \E w \in users' :
                        /\ w.id = u.id /\ w.username = u.username
                        /\ ("email" \notin DOMAIN req[r].fields => w.email = u.email)
                        /\ ("email" \in DOMAIN req[r].fields
                               => w.email = req[r].fields["email"])
                        /\ ("full_name" \notin DOMAIN req[r].fields
                               => w.full_name = u.full_name)
                        /\ ("password" \notin DOMAIN req[r].fields
                               => w.password_hash = u.password_hash)
                        /\ w.updated_at = utcnow

\* C8: the update_data passed to db.update_user holds email / full_name exactly
\* when the body set them, never "password", "password_hash" exactly when the
\* body set a password, and always updated_at; the fields the body did not set
\* are left unchanged.
C8_PartialUpdate ==
    /\ [](\A r \in Slots :
            (req[r].op = "update_user"
             /\ (req[r].pc = "update_user" \/ Invoked(req[r], "update_user")))
                => UpdateDataMatches(req[r]))
    /\ [][UpdateKeepsUnset]_vars

C8_Witness ==
    \E r \in Slots :
        /\ req[r].op = "update_user" /\ req[r].status = HTTP_200_OK
        /\ DOMAIN req[r].fields = {"full_name", "password"}
        /\ "password_hash" \in DOMAIN req[r].update_data
        /\ \E u \in users : u.id = "u1" /\ u.password_hash = hash_password(Some("pw2"))
                            /\ u.email = Some("u@x") /\ u.full_name = None


\* C6: the limit passed to db.list_users is the requested limit capped at 100,
\* the offset passed is (page - 1) times that capped limit, and the per_page
\* of a response is the limit that was passed.
C6_LimitCapped ==
    /\ lpc \in {"await", "done", "error"} =>
          /\ lcall.limit <= MaxPerPage
          /\ (llimit <= MaxPerPage => lcall.limit = llimit)
          /\ (llimit > MaxPerPage => lcall.limit = MaxPerPage)
          /\ lcall.offset = (lpage - 1) * lcall.limit
    /\ lpc = "done" =>
          /\ lresp /= None
          /\ lresp[1].per_page = lcall.limit
          /\ lresp[1].page = lpage

C6_Witness ==
    /\ lpc = "done"
    /\ llimit = MaxPerPage + LimitSlack
    /\ lpage = MaxPage
    /\ lresp[1].per_page = MaxPerPage
    /\ lcall.offset = (MaxPage - 1) * MaxPerPage

\* n is the least number of pages of per items that hold total items
IsCeiling(n, total, per) ==
    /\ n >= 0
    /\ n * per >= total
    /\ \A m \in 0..(n - 1) : m * per < total

\* C9: every list_users request returns a pagination response, and its
\* total_pages is the ceiling of total / per_page.
C9_TotalPagesIsCeiling ==
    lpc \notin {"request", "await"} =>
        /\ lpc = "done"
        /\ lresp /= None
        /\ IsCeiling(lresp[1].total_pages, ltotal, lresp[1].per_page)


\* C7: for a test that uses database_connection, connect and create_tables
\* complete before the body; after the body drop_tables and then close are
\* executed; every connection the fixture opened is closed by the end of the
\* run.
C7_ConnectionCleanup ==
    /\ (cur = "test_create_user" /\ \E i \in 1..Len(connlog) : connlog[i] = "body") =>
          /\ Len(connlog) >= 3
          /\ connlog[1] = "connect" /\ connlog[2] = "create_tables"
          /\ connlog[3] = "body"
    /\ (cur = "test_create_user" /\ fpc \in {"next", "done"}
        /\ \E i \in 1..Len(connlog) : connlog[i] = "body") =>
          connlog = <<"connect", "create_tables", "body", "drop_tables", "close">>
    /\ fpc = "done" => closed = opened

\* C10: within the module at most one APIClient is created, and exactly one
\* once a test asked for api_client; every login and every call of a test goes
\* to that client while it is open; client.close() is called once, at the end
\* of the module, not before; every test gets a sample_user with no token.
C10_ClientReusedUserFresh ==
    /\ created <= 1
    /\ wantedClient /\ fpc \notin {"api_client"} => created = 1
    /\ ~usedClosed
    /\ closes <= created
    /\ closes > 0 => fpc = "done"
    /\ fpc = "done" => closes = created /\ client /= "open"
    /\ ~staleToken
    /\ fpc \in {"login"} => suser /= None /\ suser[1].token = None

C10_Witness ==
    /\ fpc = "done"
    /\ ntests = MaxTests
    /\ uses >= 2 * MaxTests - 1
    /\ created = 1 /\ closes = 1

====
